---- MODULE Spec2Model ----
(***************************************************************************)
(* State-machine model of backend/server.py (VERSATIL multitenant API).    *)
(*                                                                         *)
(* The document store is modelled as one set of records per collection.    *)
(* A handler that awaits several store operations and whose interleaving   *)
(* matters (register, the two Google logins, send_message) is split at its *)
(* awaits: each step performs exactly one store operation together with    *)
(* the synchronous code that follows it.  Every other handler is one       *)
(* action.  The response a step returns is held in resp until Deliver      *)
(* writes it to the client, which happens before the next step of any      *)
(* request; no step reads resp, so this orders nothing in the store.       *)
(* Fields of the stored documents that no handler ever reads back (display *)
(* name, avatar, settings, plan, description, a conversation's created_at) *)
(* are left out.                                                           *)
(*                                                                         *)
(* uuid4 identifiers are modelled by a fresh counter (nextId); the first   *)
(* eight characters of a uuid are modelled by the identifier itself.       *)
(* datetime.utcnow() is the variable now, advanced by Tick; one tick is    *)
(* one hour.                                                               *)
(***************************************************************************)
EXTENDS Integers, Sequences, FiniteSets, TLC

VARIABLES
    users,          \* db.users
    workspaces,     \* db.workspaces
    assistants,     \* db.assistants
    conversations,  \* db.conversations
    messages,       \* db.messages
    tokens,         \* every access token handed out so far, with its time
    reqs,           \* requests of the multi-step handlers, in arrival order
    resp,           \* the response returned by the step just taken
    now,            \* datetime.utcnow()
    nextId,         \* source of fresh uuid4 values
    env,            \* process configuration (provider API keys, Google client)
    integrations,   \* db.google_integrations
    documents       \* db.google_documents

vars == <<users, workspaces, assistants, conversations, messages, tokens,
          reqs, resp, now, nextId, env, integrations, documents>>

dbAuth == <<users, workspaces>>
dbChat == <<assistants, conversations, messages>>
dbGoogle == <<integrations, documents>>

----------------------------------------------------------------------------
(* Bounds of the model                                                     *)

MaxReqs == 2        \* sign-up and demo-integration requests per behaviour
MaxSends == 1       \* send_message requests that store a message, per behaviour
MaxId == 9         \* identifiers drawn per behaviour
MaxTime == 1        \* clock ticks per behaviour of the workspace routes
MaxAssistants == 1  \* assistants stored at a time
MaxConversations == 2  \* conversations stored at a time
MaxTokens == 2      \* tokens handed out per behaviour of the token routes
MaxPastExpiry == 1  \* hours the clock runs on past the first possible expiry
MaxUpdates == 1     \* update_assistant requests that reach the store, per behaviour
MaxCreates == 1     \* assistants created per behaviour of the assistant routes
MaxSyncs == 2       \* sync_google_data requests that reach the listing, per behaviour
MaxIntegrations == 1  \* integrations stored at a time
MaxConcurrentUpdates == 2  \* update_assistant requests in a behaviour of the update route
MaxConcurrentSends == 2  \* send_message requests in a behaviour of the message routes

----------------------------------------------------------------------------
(* Program constants and input domains                                     *)

JWT_SECRET == "your-super-secret-jwt-key"
JWT_EXPIRATION_HOURS == 24

NoField == "<absent>"          \* a key that is missing from a dict / None
NoUser == 0                    \* an unauthenticated request

DemoEmail == "demo.user@gmail.com"
Emails == {"alice@example.com", DemoEmail}
Passwords == {"pw1", "pw2"}     \* what a login may present
RegPasswords == {"pw1"}         \* what a registration sets

\* workspace_name values a client may send, as character sequences; NoName
\* is a name that is omitted or empty (both are falsy in the handler)
NoName == <<>>
WorkspaceNames == {<<"T", " ">>, <<"t", "-">>, <<"b">>}

NoToken == [sub |-> NoUser, exp |-> 0, sig |-> NoField]  \* no token handed out

UserRole == {"owner", "admin", "member", "guest"}
ConversationStatus == {"active", "archived", "deleted"}
AssistantType == {"chat", "workflow", "search", "analysis"}

----------------------------------------------------------------------------
(* Utility functions                                                       *)

\* hash_password: bcrypt; the salt is left out, the digest names its input
hash_password(password) == IF password = "pw1" THEN "bcrypt(pw1)" ELSE "bcrypt(pw2)"

\* mutant: no password ever verifies
verify_password_never(plain_password, hashed_password) == FALSE

\* pwd_context.verify(plain_password, hashed_password)
verify_password(plain_password, hashed_password) ==
    hashed_password = hash_password(plain_password)

\* mutant: the expiry is the time of issue (the timedelta is dropped)
create_access_token_no_window(sub) == [sub |-> sub, exp |-> now, sig |-> JWT_SECRET]

\* create_access_token: the claims plus an absolute expiry, signed with the
\* process-wide key
create_access_token(sub) ==
    [sub |-> sub, exp |-> now + JWT_EXPIRATION_HOURS, sig |-> JWT_SECRET]

\* a token leaves the server in a response: who it was made for, and when
Issued(tok, user_id) == [tok |-> tok, user |-> user_id, at |-> now]

\* str.lower() on one character of the model's alphabet
Lower(c) == IF c = "T" THEN "t" ELSE c

\* str.replace(" ", "-") on one character
Hyphenate(c) == IF c = " " THEN "-" ELSE c

\* workspace_name.lower().replace(" ", "-")
SlugOfName(name) == [i \in DOMAIN name |-> Hyphenate(Lower(name[i]))]

\* register line 277: the slug of a new workspace
workspace_slug(workspace_name, user_id) ==
    IF workspace_name # NoName
    THEN [kind |-> "name", text |-> SlugOfName(workspace_name), uid |-> NoUser]
    ELSE [kind |-> "workspace-", text |-> <<>>, uid |-> user_id]

\* google_demo_login line 730
demo_workspace_slug(user_id) ==
    [kind |-> "demo-workspace-", text |-> <<>>, uid |-> user_id]

\* register line 282: the display name of a new workspace
workspace_name_of(workspace_name) ==
    IF workspace_name # NoName THEN workspace_name ELSE <<"<name>'s Workspace">>

\* mutant: the creator joins as a plain member
OwnerMembersAsMember(user_id) == <<[user_id |-> user_id, role |-> "member"]>>

\* the owner entry every handler puts into a new workspace
OwnerMembers(user_id) == <<[user_id |-> user_id, role |-> "owner"]>>

NewWorkspace(workspace_id, name, slug, user_id) ==
    [id |-> workspace_id, name |-> name, slug |-> slug, owner_id |-> user_id,
     members |-> OwnerMembers(user_id)]

NewUser(user_id, email, workspace_id, password, auth_provider) ==
    [id |-> user_id, email |-> email, workspaces |-> <<workspace_id>>,
     password |-> password, auth_provider |-> auth_provider]

\* User(**{k: v for k, v in doc.items() if k != "password"})
UserView(u) == [id |-> u.id, email |-> u.email, workspaces |-> u.workspaces]

Range(s) == {s[i] : i \in DOMAIN s}

\* workspace_id in current_user.workspaces
IsMember(u, workspace_id) == workspace_id \in Range(u.workspaces)

----------------------------------------------------------------------------
(* The document store                                                      *)

\* mutant: the lookup never matches
FindUserByEmailNever(email) == {u \in users : FALSE}

\* db.users.find_one({"email": email}): the matching documents
FindUserByEmail(email) == {u \in users : u.email = email}

FindUserById(id) == {u \in users : u.id = id}

FindWorkspaceById(id) == {w \in workspaces : w.id = id}

\* init_db: unique indexes of db.workspaces (id, slug)
WorkspaceInsertAllowed(w) ==
    \A x \in workspaces : x.id # w.id /\ x.slug # w.slug

\* mutant: db.users has no unique index on email
UserInsertAllowedIdOnly(u) == \A x \in users : x.id # u.id

\* init_db: unique indexes of db.users (email, id)
UserInsertAllowed(u) ==
    \A x \in users : x.id # u.id /\ x.email # u.email

\* user.workspaces[0] if user.workspaces else None, then find_one by id
PrimaryWorkspace(u) ==
    IF Len(u.workspaces) = 0 THEN {} ELSE FindWorkspaceById(u.workspaces[1])

----------------------------------------------------------------------------
(* Responses                                                               *)

NoResp == [op |-> "none", user |-> NoUser, status |-> 0, data |-> NoField,
           scope |-> {}]

\* scope: the workspaces whose resources the response carries or changed
Response(op, user, status, data, scope) ==
    [op |-> op, user |-> user, status |-> status, data |-> data, scope |-> scope]

TokenResponse(tok, u, w) ==
    [access_token |-> tok, user |-> UserView(u), workspace |-> w]

\* no response is waiting to be written to its client
Idle == resp = NoResp

\* the response just produced is written to its client
Deliver ==
    /\ resp # NoResp
    /\ resp' = NoResp
    /\ UNCHANGED <<dbAuth, dbChat, tokens, reqs, now, nextId, env, dbGoogle>>

----------------------------------------------------------------------------
(* Sign-up requests: register, google_demo_login, google_login_callback.   *)
(* The three handlers share one shape: look the e-mail up, insert the      *)
(* workspace, insert the user, hand out a token.                           *)

SignupReq(op, pc, status, email, password, workspace_name, user_id, workspace_id, token) ==
    [op |-> op, pc |-> pc, status |-> status, email |-> email,
     password |-> password, workspace_name |-> workspace_name,
     user_id |-> user_id, workspace_id |-> workspace_id, token |-> token]

Finish(r, status, token) == [r EXCEPT !.pc = "done", !.status = status, !.token = token]

CanStart == Len(reqs) < MaxReqs /\ nextId + 1 <= MaxId

\* the workspace a sign-up request builds before inserting it
ReqWorkspace(r) ==
    NewWorkspace(r.workspace_id,
                 workspace_name_of(r.workspace_name),
                 IF r.op = "google_demo_login"
                 THEN demo_workspace_slug(r.user_id)
                 ELSE workspace_slug(r.workspace_name, r.user_id),
                 r.user_id)

\* the user document a sign-up request builds before inserting it
ReqUser(r) ==
    NewUser(r.user_id, r.email, r.workspace_id,
            IF r.op = "register" THEN hash_password(r.password) ELSE NoField,
            IF r.op = "register" THEN NoField
            ELSE IF r.op = "google_demo_login" THEN "google_demo" ELSE "google")

\* "login existing user" branch of the two Google logins
LoginExisting(op, email) ==
    LET u == CHOOSE x \in FindUserByEmail(email) : TRUE
        ws == PrimaryWorkspace(u)
    IN  IF ws = {}
        THEN /\ reqs' = Append(reqs, SignupReq(op, "done",
                           IF op = "google_demo_login" THEN 404 ELSE 500,
                           email, NoField, NoName, NoUser, NoUser, NoToken))
             /\ resp' = Response(op, NoUser,
                           IF op = "google_demo_login" THEN 404 ELSE 500,
                           "No workspace found", {})
             /\ UNCHANGED tokens
        ELSE LET w == CHOOSE x \in ws : TRUE
                 tok == create_access_token(u.id)
             IN  /\ reqs' = Append(reqs, SignupReq(op, "done", 200, email,
                                   NoField, NoName, u.id, w.id, tok))
                 /\ resp' = Response(op, NoUser, 200, TokenResponse(tok, u, w), {w.id})
                 /\ tokens' = tokens \cup {Issued(tok, u.id)}

\* the request goes on to create workspace and user: two uuid4 values
StartCreate(op, email, password, workspace_name) ==
    /\ reqs' = Append(reqs, SignupReq(op, "insert_workspace", 0, email, password,
                                      workspace_name, nextId, nextId + 1, NoToken))
    /\ nextId' = nextId + 2
    /\ resp' = NoResp

\* await db.workspaces.insert_one(workspace.dict())
InsertWorkspaceStep(i, fault) ==
    LET r == reqs[i]
        w == ReqWorkspace(r)
    IN  IF WorkspaceInsertAllowed(w)
        THEN /\ workspaces' = workspaces \cup {w}
             /\ reqs' = [reqs EXCEPT ![i].pc = "insert_user"]
             /\ resp' = NoResp
        ELSE \* DuplicateKeyError
             /\ reqs' = [reqs EXCEPT ![i] = Finish(r, 500, NoToken)]
             /\ resp' = Response(r.op, NoUser, 500, fault, {})
             /\ UNCHANGED workspaces

\* await db.users.insert_one(user_doc), then the token and the response
InsertUserStep(i, fault) ==
    LET r == reqs[i]
        u == ReqUser(r)
        tok == create_access_token(r.user_id)
    IN  IF UserInsertAllowed(u)
        THEN /\ users' = users \cup {u}
             /\ tokens' = tokens \cup {Issued(tok, u.id)}
             /\ reqs' = [reqs EXCEPT ![i] = Finish(r, 200, tok)]
             /\ resp' = Response(r.op, NoUser, 200,
                                 TokenResponse(tok, u, ReqWorkspace(r)),
                                 {r.workspace_id})
        ELSE \* DuplicateKeyError
             /\ reqs' = [reqs EXCEPT ![i] = Finish(r, 500, NoToken)]
             /\ resp' = Response(r.op, NoUser, 500, fault, {})
             /\ UNCHANGED <<users, tokens>>

At(i, op, pc) == i \in DOMAIN reqs /\ reqs[i].op = op /\ reqs[i].pc = pc

----------------------------------------------------------------------------
(* POST /api/auth/register                                                 *)

RegisterLookup(email, password, workspace_name) ==
    /\ Idle
    /\ CanStart
    /\ IF FindUserByEmail(email) # {}
       THEN /\ reqs' = Append(reqs, SignupReq("register", "done", 400, email,
                              password, workspace_name, NoUser, NoUser, NoToken))
            /\ resp' = Response("register", NoUser, 400, "Email already registered", {})
            /\ UNCHANGED nextId
       ELSE StartCreate("register", email, password, workspace_name)
    /\ UNCHANGED <<dbAuth, dbChat, tokens, now, env, dbGoogle>>

RegisterInsertWorkspace(i) ==
    /\ Idle
    /\ At(i, "register", "insert_workspace")
    /\ InsertWorkspaceStep(i, "Internal Server Error")
    /\ UNCHANGED <<users, dbChat, tokens, now, nextId, env, dbGoogle>>

RegisterInsertUser(i) ==
    /\ Idle
    /\ At(i, "register", "insert_user")
    /\ InsertUserStep(i, "Internal Server Error")
    /\ UNCHANGED <<workspaces, dbChat, now, nextId, env, dbGoogle>>

----------------------------------------------------------------------------
(* POST /api/auth/google/demo                                              *)

DemoLookup ==
    /\ Idle
    /\ CanStart
    /\ IF FindUserByEmail(DemoEmail) # {}
       THEN LoginExisting("google_demo_login", DemoEmail) /\ UNCHANGED nextId
       ELSE StartCreate("google_demo_login", DemoEmail, NoField, NoName)
            /\ UNCHANGED tokens
    /\ UNCHANGED <<dbAuth, dbChat, now, env, dbGoogle>>

DemoInsertWorkspace(i) ==
    /\ Idle
    /\ At(i, "google_demo_login", "insert_workspace")
    /\ InsertWorkspaceStep(i, "Internal Server Error")
    /\ UNCHANGED <<users, dbChat, tokens, now, nextId, env, dbGoogle>>

DemoInsertUser(i) ==
    /\ Idle
    /\ At(i, "google_demo_login", "insert_user")
    /\ InsertUserStep(i, "Internal Server Error")
    /\ UNCHANGED <<workspaces, dbChat, now, nextId, env, dbGoogle>>

----------------------------------------------------------------------------
(* GET /api/auth/google/callback                                           *)
(* google_email is what Google's userinfo answers for the code: an e-mail, *)
(* NoField when it carries none, "error" when the exchange raises.  Every  *)
(* exception below the try, HTTPException included, is mapped to 500.      *)

OAuthLookup(google_email) ==
    /\ Idle
    /\ CanStart
    /\ IF google_email \in {NoField, "error"}
       THEN /\ reqs' = Append(reqs, SignupReq("google_login_callback", "done", 500,
                              google_email, NoField, NoName, NoUser, NoUser, NoToken))
            /\ resp' = Response("google_login_callback", NoUser, 500,
                                "Failed to complete OAuth", {})
            /\ UNCHANGED <<nextId, tokens>>
       ELSE IF FindUserByEmail(google_email) # {}
       THEN LoginExisting("google_login_callback", google_email) /\ UNCHANGED nextId
       ELSE StartCreate("google_login_callback", google_email, NoField, NoName)
            /\ UNCHANGED tokens
    /\ UNCHANGED <<dbAuth, dbChat, now, env, dbGoogle>>

OAuthInsertWorkspace(i) ==
    /\ Idle
    /\ At(i, "google_login_callback", "insert_workspace")
    /\ InsertWorkspaceStep(i, "Failed to complete OAuth")
    /\ UNCHANGED <<users, dbChat, tokens, now, nextId, env, dbGoogle>>

OAuthInsertUser(i) ==
    /\ Idle
    /\ At(i, "google_login_callback", "insert_user")
    /\ InsertUserStep(i, "Failed to complete OAuth")
    /\ UNCHANGED <<workspaces, dbChat, now, nextId, env, dbGoogle>>

----------------------------------------------------------------------------
(* POST /api/auth/login                                                    *)
(* A document without a "password" key makes user_doc["password"] raise    *)
(* KeyError, which the framework answers with 500.                         *)

LoginStatus(email, password) ==
    LET found == FindUserByEmail(email)
    IN  IF found = {} THEN 401
        ELSE LET u == CHOOSE x \in found : TRUE
             IN  IF u.password = NoField THEN 500
                 ELSE IF ~verify_password(password, u.password) THEN 401
                 ELSE IF PrimaryWorkspace(u) = {} THEN 404
                 ELSE 200

Login(email, password) ==
    /\ Idle
    /\ LET status == LoginStatus(email, password)
       IN  /\ IF status = 200
              THEN LET u == CHOOSE x \in FindUserByEmail(email) : TRUE
                       w == CHOOSE x \in PrimaryWorkspace(u) : TRUE
                       tok == create_access_token(u.id)
                   IN  /\ tokens' = tokens \cup {Issued(tok, u.id)}
                       /\ resp' = Response("login", NoUser, 200,
                                           TokenResponse(tok, u, w), {w.id})
              ELSE /\ resp' = Response("login", NoUser, status, email, {})
                   /\ UNCHANGED tokens
           /\ UNCHANGED <<dbAuth, dbChat, reqs, now, nextId, env, dbGoogle>>

----------------------------------------------------------------------------
(* Specification of the authentication routes, from an empty store         *)

NoEnv == [openai |-> FALSE, anthropic |-> FALSE, google |-> FALSE]

InitAuth ==
    /\ users = {} /\ workspaces = {}
    /\ assistants = {} /\ conversations = {} /\ messages = {}
    /\ tokens = {} /\ reqs = <<>> /\ resp = NoResp
    /\ now = 0 /\ nextId = 1 /\ env = NoEnv
    /\ integrations = {} /\ documents = {}

NextAuth ==
    \/ \E e \in Emails, p \in RegPasswords, n \in WorkspaceNames \cup {NoName} :
           RegisterLookup(e, p, n)
    \/ \E i \in 1..MaxReqs : RegisterInsertWorkspace(i)
    \/ \E i \in 1..MaxReqs : RegisterInsertUser(i)
    \/ DemoLookup
    \/ \E i \in 1..MaxReqs : DemoInsertWorkspace(i)
    \/ \E i \in 1..MaxReqs : DemoInsertUser(i)
    \/ \E g \in Emails \cup {NoField, "error"} : OAuthLookup(g)
    \/ \E i \in 1..MaxReqs : OAuthInsertWorkspace(i)
    \/ \E i \in 1..MaxReqs : OAuthInsertUser(i)
    \/ \E e \in Emails, p \in Passwords : Login(e, p)
    \/ Deliver

SpecAuth == InitAuth /\ [][NextAuth]_vars

----------------------------------------------------------------------------
(* Assistants, conversations, messages                                     *)

AssistantNames == {"helper"}
Models == {"gpt-4", "claude-3"}
Contents == {"hi"}
ProviderOutcomes == {"ok", "quota exceeded"}

\* message content: what kind of text it is, the assistant name quoted in
\* it (demo reply), and the user text it carries
Content(kind, name, text) == [kind |-> kind, name |-> name, text |-> text]

\* Message.metadata when the constructor is not given one: the empty dict,
\* as its set of keys
DefaultMetadata == {}

NoMessage == [id |-> 0, conversation_id |-> 0, role |-> "none",
              content |-> Content("none", NoField, NoField),
              metadata |-> DefaultMetadata, created_at |-> 0]

NoAssistant == [id |-> 0, workspace_id |-> 0, name |-> NoField, type |-> NoField,
                model |-> NoField, created_by |-> NoUser]

\* Assistant(**assistant_doc): the model validates type against AssistantType
\* and raises otherwise
ValidAssistant(a) == a.type \in AssistantType

NewMessage(id, conversation_id, role, content) ==
    [id |-> id, conversation_id |-> conversation_id, role |-> role,
     content |-> content, metadata |-> DefaultMetadata, created_at |-> now]

WorkspaceIds == {w.id : w \in workspaces}

\* mutant: the lookup ignores the workspace
FindAssistantAnyWorkspace(assistant_id, workspace_id) ==
    {a \in assistants : a.id = assistant_id}

\* db.assistants.find_one({"id": ..., "workspace_id": ...})
FindAssistant(assistant_id, workspace_id) ==
    {a \in assistants : a.id = assistant_id /\ a.workspace_id = workspace_id}

\* mutant: a missing assistant is replaced by a default one
FindAssistantByIdOrDefault(assistant_id) ==
    IF \E a \in assistants : a.id = assistant_id
    THEN {a \in assistants : a.id = assistant_id}
    ELSE {NoAssistant}

\* db.assistants.find_one({"id": conversation.assistant_id})
FindAssistantById(assistant_id) == {a \in assistants : a.id = assistant_id}

\* db.conversations.find_one({"id": ..., "user_id": current_user.id})
FindConversation(conversation_id, user_id) ==
    {c \in conversations : c.id = conversation_id /\ c.user_id = user_id}

\* the orders in which a cursor can return the documents of S
RECURSIVE Orderings(_)
Orderings(S) ==
    IF S = {} THEN {<<>>}
    ELSE UNION {{<<x>> \o f : f \in Orderings(S \ {x})} : x \in S}

\* cursor.sort("updated_at", direction): direction -1 is descending; the
\* store leaves the order of documents with equal keys open
SortConversations(S, direction) ==
    {f \in Orderings(S) :
        \A j, k \in DOMAIN f :
            j < k => IF direction = -1 THEN f[j].updated_at >= f[k].updated_at
                                       ELSE f[j].updated_at <= f[k].updated_at}

\* cursor.sort("created_at", direction): direction 1 is ascending
SortMessages(S, direction) ==
    {f \in Orderings(S) :
        \A j, k \in DOMAIN f :
            j < k => IF direction = -1 THEN f[j].created_at >= f[k].created_at
                                       ELSE f[j].created_at <= f[k].created_at}

----------------------------------------------------------------------------
(* Assistant routes                                                        *)

\* GET /api/workspaces/{workspace_id}/assistants
GetAssistants(u, workspace_id) ==
    /\ Idle
    /\ IF ~IsMember(u, workspace_id)
       THEN resp' = Response("get_assistants", u.id, 403, "Access denied", {})
       ELSE LET found == {a \in assistants : a.workspace_id = workspace_id}
            IN  IF \E a \in found : ~ValidAssistant(a)
                THEN resp' = Response("get_assistants", u.id, 500,
                                      "Internal Server Error", {})
                ELSE resp' = Response("get_assistants", u.id, 200, found,
                                      {a.workspace_id : a \in found})
    /\ UNCHANGED <<dbAuth, dbChat, tokens, reqs, now, nextId, env, dbGoogle>>

\* POST /api/workspaces/{workspace_id}/assistants
\* a body without "name" raises KeyError: 500; the body carries no "type",
\* which then is "chat"
CreateAssistant(u, workspace_id, name, model) ==
    /\ Idle
    /\ IF ~IsMember(u, workspace_id)
       THEN /\ resp' = Response("create_assistant", u.id, 403, "Access denied", {})
            /\ UNCHANGED <<dbAuth, dbChat, tokens, reqs, now, nextId, env, dbGoogle>>
       ELSE IF name = NoField
       THEN /\ resp' = Response("create_assistant", u.id, 500, "KeyError: 'name'", {})
            /\ UNCHANGED <<dbAuth, dbChat, tokens, reqs, now, nextId, env, dbGoogle>>
       ELSE LET a == [id |-> nextId, workspace_id |-> workspace_id, name |-> name,
                      type |-> "chat", model |-> model, created_by |-> u.id]
            IN  /\ Cardinality(assistants) < MaxAssistants
                /\ nextId <= MaxId
                /\ assistants' = assistants \cup {a}
                /\ nextId' = nextId + 1
                /\ resp' = Response("create_assistant", u.id, 200, a, {workspace_id})
                /\ UNCHANGED <<dbAuth, conversations, messages, tokens, reqs, now, env, dbGoogle>>

\* GET /api/workspaces/{workspace_id}/assistants/{assistant_id}
GetAssistant(u, workspace_id, assistant_id) ==
    /\ Idle
    /\ IF ~IsMember(u, workspace_id)
       THEN resp' = Response("get_assistant", u.id, 403, "Access denied", {})
       ELSE IF FindAssistant(assistant_id, workspace_id) = {}
       THEN resp' = Response("get_assistant", u.id, 404, "Assistant not found", {})
       ELSE LET a == CHOOSE x \in FindAssistant(assistant_id, workspace_id) : TRUE
            IN  IF ~ValidAssistant(a)
                THEN resp' = Response("get_assistant", u.id, 500,
                                      "Internal Server Error", {})
                ELSE resp' = Response("get_assistant", u.id, 200, a, {a.workspace_id})
    /\ UNCHANGED <<dbAuth, dbChat, tokens, reqs, now, nextId, env, dbGoogle>>

\* line 505: the list given to {"conversation_id": {"$in": [...]}}
CascadeConversationIds(assistant_id, workspace_id) == {}

\* DELETE /api/workspaces/{workspace_id}/assistants/{assistant_id}
DeleteAssistant(u, workspace_id, assistant_id) ==
    /\ Idle
    /\ IF ~IsMember(u, workspace_id)
       THEN /\ resp' = Response("delete_assistant", u.id, 403, "Access denied", {})
            /\ UNCHANGED <<dbAuth, dbChat, tokens, reqs, now, nextId, env, dbGoogle>>
       ELSE IF FindAssistant(assistant_id, workspace_id) = {}
       THEN /\ resp' = Response("delete_assistant", u.id, 404, "Assistant not found", {})
            /\ UNCHANGED <<dbAuth, dbChat, tokens, reqs, now, nextId, env, dbGoogle>>
       ELSE /\ assistants' = assistants \ FindAssistant(assistant_id, workspace_id)
            /\ conversations' =
                   {c \in conversations :
                       ~(c.assistant_id = assistant_id /\ c.workspace_id = workspace_id)}
            /\ messages' =
                   {m \in messages :
                       m.conversation_id \notin
                           CascadeConversationIds(assistant_id, workspace_id)}
            /\ resp' = Response("delete_assistant", u.id, 200, assistant_id, {workspace_id})
            /\ UNCHANGED <<dbAuth, tokens, reqs, now, nextId, env, dbGoogle>>

----------------------------------------------------------------------------
(* PUT /api/workspaces/{workspace_id}/assistants/{assistant_id}            *)
(* Three store operations: find_one, update_one, find_one.                 *)

UpdateReq(pc, status, u, workspace_id, assistant_id, assistant_data, existing_assistant, update_data) ==
    [op |-> "update_assistant", pc |-> pc, status |-> status, user |-> u.id,
     workspace_id |-> workspace_id, assistant_id |-> assistant_id,
     assistant_data |-> assistant_data, existing_assistant |-> existing_assistant,
     update_data |-> update_data]

\* assistant_data.get(key, default)
Get(assistant_data, key, default) ==
    IF assistant_data[key] = NoField THEN default ELSE assistant_data[key]

\* lines 436-456: the membership check, the first find_one, and update_data
\* (a key the body leaves out takes the value read from the store); at most
\* max_updates requests get this far in a behaviour
UpdateLookupWithin(max_updates, u, workspace_id, assistant_id, assistant_data) ==
    /\ Idle
    /\ IF ~IsMember(u, workspace_id)
       THEN /\ resp' = Response("update_assistant", u.id, 403, "Access denied", {})
            /\ UNCHANGED reqs
       ELSE IF FindAssistant(assistant_id, workspace_id) = {}
       THEN /\ resp' = Response("update_assistant", u.id, 404, "Assistant not found", {})
            /\ UNCHANGED reqs
       ELSE LET existing == CHOOSE x \in FindAssistant(assistant_id, workspace_id) : TRUE
                update_data ==
                    [name |-> Get(assistant_data, "name", existing.name),
                     type |-> Get(assistant_data, "type", existing.type),
                     model |-> Get(assistant_data, "model", existing.model)]
            IN  /\ Len(reqs) < max_updates
                /\ reqs' = Append(reqs, UpdateReq("update", 0, u, workspace_id,
                                                  assistant_id, assistant_data,
                                                  existing, update_data))
                /\ resp' = NoResp
    /\ UNCHANGED <<dbAuth, dbChat, tokens, now, nextId, env, dbGoogle>>

UpdateLookup(u, workspace_id, assistant_id, assistant_data) ==
    UpdateLookupWithin(MaxUpdates, u, workspace_id, assistant_id, assistant_data)

\* lines 459-462: update_one({"id", "workspace_id"}, {"$set": update_data})
UpdateWrite(i) ==
    /\ Idle
    /\ At(i, "update_assistant", "update")
    /\ LET r == reqs[i]
       IN  assistants' =
               {IF a.id = r.assistant_id /\ a.workspace_id = r.workspace_id
                THEN [a EXCEPT !.name = r.update_data.name,
                               !.type = r.update_data.type,
                               !.model = r.update_data.model]
                ELSE a : a \in assistants}
    /\ reqs' = [reqs EXCEPT ![i].pc = "return"]
    /\ resp' = NoResp
    /\ UNCHANGED <<dbAuth, conversations, messages, tokens, now, nextId, env, dbGoogle>>

\* lines 465-471: the second find_one and Assistant(**updated_assistant_doc);
\* Assistant(**None) raises TypeError when the assistant was deleted in
\* between, and a type outside AssistantType fails validation
UpdateReturn(i) ==
    /\ Idle
    /\ At(i, "update_assistant", "return")
    /\ LET r == reqs[i]
           found == FindAssistant(r.assistant_id, r.workspace_id)
       IN  IF found = {} \/ \E a \in found : ~ValidAssistant(a)
           THEN /\ reqs' = [reqs EXCEPT ![i].pc = "done", ![i].status = 500]
                /\ resp' = Response("update_assistant", r.user, 500,
                                    "Internal Server Error", {})
           ELSE /\ reqs' = [reqs EXCEPT ![i].pc = "done", ![i].status = 200]
                /\ resp' = Response("update_assistant", r.user, 200,
                                    CHOOSE x \in found : TRUE, {r.workspace_id})
    /\ UNCHANGED <<dbAuth, dbChat, tokens, now, nextId, env, dbGoogle>>

----------------------------------------------------------------------------
(* Conversation routes                                                     *)

\* the find of get_conversations
ConversationFilter(u, workspace_id) ==
    {c \in conversations : /\ c.workspace_id = workspace_id
                           /\ c.user_id = u.id
                           /\ c.status # "deleted"}

\* mutant: sort("updated_at", 1)
ConversationCursorAscending(u, workspace_id) ==
    SortConversations(ConversationFilter(u, workspace_id), 1)

\* db.conversations.find({...}).sort("updated_at", -1)
ConversationCursor(u, workspace_id) ==
    SortConversations(ConversationFilter(u, workspace_id), -1)

\* GET /api/workspaces/{workspace_id}/conversations
GetConversations(u, workspace_id) ==
    /\ Idle
    /\ IF ~IsMember(u, workspace_id)
       THEN resp' = Response("get_conversations", u.id, 403, workspace_id, {})
       ELSE \E found \in ConversationCursor(u, workspace_id) :
                resp' = Response("get_conversations", u.id, 200,
                                 [workspace_id |-> workspace_id, list |-> found],
                                 {found[k].workspace_id : k \in DOMAIN found})
    /\ UNCHANGED <<dbAuth, dbChat, tokens, reqs, now, nextId, env, dbGoogle>>

\* POST /api/workspaces/{workspace_id}/conversations
\* a body without "assistant_id" raises KeyError: 500
CreateConversation(u, workspace_id, assistant_id) ==
    /\ Idle
    /\ IF ~IsMember(u, workspace_id)
       THEN /\ resp' = Response("create_conversation", u.id, 403, "Access denied", {})
            /\ UNCHANGED <<dbAuth, dbChat, tokens, reqs, now, nextId, env, dbGoogle>>
       ELSE IF assistant_id = NoUser
       THEN /\ resp' = Response("create_conversation", u.id, 500,
                                "KeyError: 'assistant_id'", {})
            /\ UNCHANGED <<dbAuth, dbChat, tokens, reqs, now, nextId, env, dbGoogle>>
       ELSE LET c == [id |-> nextId, workspace_id |-> workspace_id,
                      assistant_id |-> assistant_id, user_id |-> u.id,
                      status |-> "active", updated_at |-> now]
            IN  /\ Cardinality(conversations) < MaxConversations
                /\ nextId <= MaxId
                /\ conversations' = conversations \cup {c}
                /\ nextId' = nextId + 1
                /\ resp' = Response("create_conversation", u.id, 200, c, {workspace_id})
                /\ UNCHANGED <<dbAuth, assistants, messages, tokens, reqs, now, env, dbGoogle>>

----------------------------------------------------------------------------
(* POST /api/conversations/{conversation_id}/messages                      *)

SendReq(pc, status, u, c, a, content, user_message) ==
    [op |-> "send_message", pc |-> pc, status |-> status, user |-> u.id,
     cid |-> c.id, workspace_id |-> c.workspace_id, assistant |-> a,
     content |-> content, user_message |-> user_message,
     provider |-> "none", assistant_message |-> NoMessage, updated_at |-> 0]

\* mutant: the user message is not written before the provider is called
StoreUserMessageLater(m) == messages

\* await db.messages.insert_one(user_message.dict())
StoreUserMessage(m) == messages \cup {m}

\* lines 558-584: resolve the conversation and its assistant, store the
\* user message; at most max_sends requests get this far in a behaviour
SendResolveWithin(max_sends, u, conversation_id, content) ==
    /\ Idle
    /\ IF FindConversation(conversation_id, u.id) = {}
       THEN /\ resp' = Response("send_message", u.id, 404, "Conversation not found", {})
            /\ UNCHANGED <<dbAuth, dbChat, tokens, reqs, now, nextId, env, dbGoogle>>
       ELSE LET c == CHOOSE x \in FindConversation(conversation_id, u.id) : TRUE
            IN  IF FindAssistantById(c.assistant_id) = {}
                THEN /\ resp' = Response("send_message", u.id, 404,
                                         "Assistant not found", {})
                     /\ UNCHANGED <<dbAuth, dbChat, tokens, reqs, now, nextId, env, dbGoogle>>
                ELSE IF \E a \in FindAssistantById(c.assistant_id) : ~ValidAssistant(a)
                THEN \* line 573: Assistant(**assistant_doc) raises
                     /\ resp' = Response("send_message", u.id, 500,
                                         [error |-> "ValidationError", cause |-> "type"], {})
                     /\ UNCHANGED <<dbAuth, dbChat, tokens, reqs, now, nextId, env, dbGoogle>>
                ELSE IF content = NoField
                THEN /\ resp' = Response("send_message", u.id, 500,
                                         [error |-> "KeyError", cause |-> "content"], {})
                     /\ UNCHANGED <<dbAuth, dbChat, tokens, reqs, now, nextId, env, dbGoogle>>
                ELSE LET a == CHOOSE x \in FindAssistantById(c.assistant_id) : TRUE
                         m == NewMessage(nextId, conversation_id, "user",
                                         Content("user", NoField, content))
                     IN  /\ Len(reqs) < max_sends
                         /\ nextId <= MaxId
                         /\ messages' = StoreUserMessage(m)
                         /\ nextId' = nextId + 1
                         /\ reqs' = Append(reqs, SendReq("provider", 0, u, c, a, content, m))
                         /\ resp' = NoResp
                         /\ UNCHANGED <<dbAuth, assistants, conversations, tokens, now, env, dbGoogle>>

SendResolve(u, conversation_id, content) ==
    SendResolveWithin(MaxSends, u, conversation_id, content)

\* assistant.model.startswith("gpt")
StartsWithGpt(model) == model = "gpt-4"

\* mutant: a key is taken to be configured whatever the environment holds
ProviderConfiguredAlways(model) == TRUE

\* the API key the model routes to is set and is not the placeholder
ProviderConfigured(model) ==
    IF StartsWithGpt(model) THEN env.openai ELSE env.anthropic

\* lines 586-626: the provider call (or the demo reply) and the assistant
\* message built from it; any exception becomes 500 with its text
SendProvider(i, outcome) ==
    /\ Idle
    /\ At(i, "send_message", "provider")
    /\ LET r == reqs[i]
           configured == ProviderConfigured(r.assistant.model)
       IN  /\ ~configured => outcome = "ok"
           /\ IF outcome = "ok"
              THEN /\ nextId <= MaxId
                   /\ reqs' = [reqs EXCEPT
                         ![i].pc = "insert_assistant",
                         ![i].provider = IF configured THEN "completion" ELSE "demo",
                         ![i].assistant_message =
                             NewMessage(nextId, r.cid, "assistant",
                                 IF configured
                                 THEN Content("completion", NoField, "reply")
                                 ELSE Content("demo", r.assistant.name, r.content))]
                   /\ nextId' = nextId + 1
                   /\ resp' = NoResp
              ELSE /\ reqs' = [reqs EXCEPT ![i].pc = "done", ![i].status = 500,
                                           ![i].provider = outcome]
                   /\ resp' = Response("send_message", r.user, 500,
                                  [error |-> "AI response error", cause |-> outcome],
                                  {r.workspace_id})
                   /\ UNCHANGED nextId
    /\ UNCHANGED <<dbAuth, dbChat, tokens, now, env, dbGoogle>>

\* line 628: await db.messages.insert_one(assistant_message.dict())
SendInsertAssistant(i) ==
    /\ Idle
    /\ At(i, "send_message", "insert_assistant")
    /\ messages' = messages \cup {reqs[i].assistant_message}
    /\ reqs' = [reqs EXCEPT ![i].pc = "update", ![i].updated_at = now]
    /\ resp' = NoResp
    /\ UNCHANGED <<dbAuth, assistants, conversations, tokens, now, nextId, env, dbGoogle>>

\* lines 631-636: update_one({"id": conversation_id}, {"$set": {"updated_at"}})
SendUpdateConversation(i) ==
    /\ Idle
    /\ At(i, "send_message", "update")
    /\ LET r == reqs[i]
       IN  /\ conversations' =
                 {IF c.id = r.cid THEN [c EXCEPT !.updated_at = r.updated_at] ELSE c :
                     c \in conversations}
           /\ reqs' = [reqs EXCEPT ![i].pc = "done", ![i].status = 200]
           /\ resp' = Response("send_message", r.user, 200,
                          [user_message |-> r.user_message,
                           assistant_message |-> r.assistant_message],
                          {r.workspace_id, r.assistant.workspace_id})
    /\ UNCHANGED <<dbAuth, assistants, messages, tokens, now, nextId, env, dbGoogle>>

\* mutant: sort("created_at", -1)
MessageCursorDescending(conversation_id) ==
    SortMessages({m \in messages : m.conversation_id = conversation_id}, -1)

\* db.messages.find({"conversation_id": conversation_id}).sort("created_at", 1)
MessageCursor(conversation_id) ==
    SortMessages({m \in messages : m.conversation_id = conversation_id}, 1)

\* GET /api/conversations/{conversation_id}/messages
GetMessages(u, conversation_id) ==
    /\ Idle
    /\ IF FindConversation(conversation_id, u.id) = {}
       THEN resp' = Response("get_messages", u.id, 404, "Conversation not found", {})
       ELSE \E c \in FindConversation(conversation_id, u.id) :
            \E found \in MessageCursor(conversation_id) :
                resp' = Response("get_messages", u.id, 200, found, {c.workspace_id})
    /\ UNCHANGED <<dbAuth, dbChat, tokens, reqs, now, nextId, env, dbGoogle>>

\* time passes
Tick ==
    /\ Idle
    /\ now < MaxTime
    /\ now' = now + 1
    /\ resp' = NoResp
    /\ UNCHANGED <<dbAuth, dbChat, tokens, reqs, nextId, env, dbGoogle>>

----------------------------------------------------------------------------
(* Specification of the workspace routes.  The store holds two users, each *)
(* registered with a workspace of their own (the outcome of two register   *)
(* calls under SpecAuth); the provider keys are whatever the process was   *)
(* started with.                                                           *)

RegisteredUser(user_id, email, workspace_id) ==
    NewUser(user_id, email, workspace_id, hash_password("pw1"), NoField)

RegisteredWorkspace(workspace_id, user_id) ==
    NewWorkspace(workspace_id, workspace_name_of(NoName),
                 workspace_slug(NoName, user_id), user_id)

InitChat ==
    /\ users = {RegisteredUser(1, "alice@example.com", 2),
                RegisteredUser(3, DemoEmail, 4)}
    /\ workspaces = {RegisteredWorkspace(2, 1), RegisteredWorkspace(4, 3)}
    /\ assistants = {} /\ conversations = {} /\ messages = {}
    /\ tokens = {} /\ reqs = <<>> /\ resp = NoResp
    /\ now = 0 /\ nextId = 5
    /\ env \in {[openai |-> FALSE, anthropic |-> TRUE, google |-> FALSE],
                [openai |-> TRUE, anthropic |-> FALSE, google |-> FALSE]}
    /\ integrations = {} /\ documents = {}

AssistantIds == {a.id : a \in assistants}
ConversationIds == {c.id : c \in conversations}

NextChat ==
    \/ \E u \in users, w \in WorkspaceIds : GetAssistants(u, w)
    \/ \E u \in users, w \in WorkspaceIds, n \in AssistantNames \cup {NoField},
          m \in Models : CreateAssistant(u, w, n, m)
    \/ \E u \in users, w \in WorkspaceIds, a \in AssistantIds : GetAssistant(u, w, a)
    \/ \E u \in users, w \in WorkspaceIds, a \in AssistantIds : DeleteAssistant(u, w, a)
    \/ \E u \in users, w \in WorkspaceIds : GetConversations(u, w)
    \/ \E u \in users, w \in WorkspaceIds, a \in AssistantIds \cup {NoUser} :
          CreateConversation(u, w, a)
    \/ \E u \in users, c \in ConversationIds, t \in Contents \cup {NoField} :
          SendResolve(u, c, t)
    \/ \E i \in 1..MaxSends, o \in ProviderOutcomes : SendProvider(i, o)
    \/ \E i \in 1..MaxSends : SendInsertAssistant(i)
    \/ \E i \in 1..MaxSends : SendUpdateConversation(i)
    \/ \E u \in users, c \in ConversationIds : GetMessages(u, c)
    \/ Tick
    \/ Deliver

SpecChat == InitChat /\ [][NextChat]_vars

----------------------------------------------------------------------------
(* Specification of the message routes: one registered user with an        *)
(* assistant and a conversation of hers (the outcome of register,          *)
(* create_assistant and create_conversation); send_message requests on the *)
(* conversation may overlap.  The OpenAI key is configured.                 *)

InitMessages ==
    /\ users = {RegisteredUser(1, "alice@example.com", 2)}
    /\ workspaces = {RegisteredWorkspace(2, 1)}
    /\ assistants = {[id |-> 3, workspace_id |-> 2, name |-> "helper",
                      type |-> "chat", model |-> "gpt-4", created_by |-> 1]}
    /\ conversations = {[id |-> 4, workspace_id |-> 2, assistant_id |-> 3,
                         user_id |-> 1, status |-> "active", updated_at |-> 0]}
    /\ messages = {}
    /\ tokens = {} /\ reqs = <<>> /\ resp = NoResp
    /\ now = 0 /\ nextId = 5
    /\ env = [openai |-> TRUE, anthropic |-> FALSE, google |-> FALSE]
    /\ integrations = {} /\ documents = {}

NextMessages ==
    \/ \E u \in users, c \in {x.id : x \in conversations}, t \in Contents :
          SendResolveWithin(MaxConcurrentSends, u, c, t)
    \/ \E i \in 1..MaxConcurrentSends, o \in ProviderOutcomes : SendProvider(i, o)
    \/ \E i \in 1..MaxConcurrentSends : SendInsertAssistant(i)
    \/ \E i \in 1..MaxConcurrentSends : SendUpdateConversation(i)
    \/ \E u \in users, c \in {x.id : x \in conversations} : GetMessages(u, c)
    \/ \E u \in users, w \in WorkspaceIds, a \in {x.id : x \in assistants} :
          DeleteAssistant(u, w, a)
    \/ Tick
    \/ Deliver

SpecMessages == InitMessages /\ [][NextMessages]_vars

----------------------------------------------------------------------------
(* Specification of the assistant routes alone, from the same store.  An   *)
(* assistant id in a request is any id a client has seen: that of a stored *)
(* assistant or that of a workspace (which names no assistant).            *)

\* the first identifier not taken by the two registrations
FirstFreeId == 5

InitAssistant ==
    /\ users = {RegisteredUser(1, "alice@example.com", 2),
                RegisteredUser(3, DemoEmail, 4)}
    /\ workspaces = {RegisteredWorkspace(2, 1), RegisteredWorkspace(4, 3)}
    /\ assistants = {} /\ conversations = {} /\ messages = {}
    /\ tokens = {} /\ reqs = <<>> /\ resp = NoResp
    /\ now = 0 /\ nextId = FirstFreeId /\ env = NoEnv
    /\ integrations = {} /\ documents = {}

SeenIds == AssistantIds \cup WorkspaceIds

\* the bodies sent to update_assistant: a new name, a new model, or neither
UpdateBodies ==
    {[name |-> "renamed", type |-> NoField, model |-> NoField],
     [name |-> NoField, type |-> NoField, model |-> "claude-3"],
     [name |-> NoField, type |-> NoField, model |-> NoField]}

NextAssistant ==
    \/ \E u \in users, w \in WorkspaceIds, n \in AssistantNames :
          nextId < FirstFreeId + MaxCreates /\ CreateAssistant(u, w, n, "gpt-4")
    \/ \E u \in users, w \in WorkspaceIds, a \in SeenIds : GetAssistant(u, w, a)
    \/ \E u \in users, w \in WorkspaceIds, a \in SeenIds, b \in UpdateBodies :
          UpdateLookup(u, w, a, b)
    \/ \E i \in 1..MaxUpdates : UpdateWrite(i)
    \/ \E i \in 1..MaxUpdates : UpdateReturn(i)
    \/ \E u \in users, w \in WorkspaceIds, a \in SeenIds : DeleteAssistant(u, w, a)
    \/ Deliver

SpecAssistant == InitAssistant /\ [][NextAssistant]_vars

----------------------------------------------------------------------------
(* Specification of update_assistant: an assistant is stored in the first  *)
(* user's workspace (the outcome of one create_assistant), and update      *)
(* requests on it may overlap.                                             *)

StoredAssistant ==
    [id |-> FirstFreeId, workspace_id |-> 2, name |-> "helper", type |-> "chat",
     model |-> "gpt-4", created_by |-> 1]

InitUpdate ==
    /\ users = {RegisteredUser(1, "alice@example.com", 2),
                RegisteredUser(3, DemoEmail, 4)}
    /\ workspaces = {RegisteredWorkspace(2, 1), RegisteredWorkspace(4, 3)}
    /\ assistants = {StoredAssistant}
    /\ conversations = {} /\ messages = {}
    /\ tokens = {} /\ reqs = <<>> /\ resp = NoResp
    /\ now = 0 /\ nextId = FirstFreeId + 1 /\ env = NoEnv
    /\ integrations = {} /\ documents = {}

\* a body whose type is none of chat, workflow, search, analysis
BadTypeBody == [name |-> NoField, type |-> "bogus", model |-> NoField]

NextUpdate ==
    \/ \E u \in users, w \in WorkspaceIds : GetAssistants(u, w)
    \/ \E u \in users, w \in WorkspaceIds, a \in AssistantIds : GetAssistant(u, w, a)
    \/ \E u \in users, w \in WorkspaceIds, a \in AssistantIds,
          b \in UpdateBodies \cup {BadTypeBody} :
          UpdateLookupWithin(MaxConcurrentUpdates, u, w, a, b)
    \/ \E i \in 1..MaxConcurrentUpdates : UpdateWrite(i)
    \/ \E i \in 1..MaxConcurrentUpdates : UpdateReturn(i)
    \/ Deliver

SpecUpdate == InitUpdate /\ [][NextUpdate]_vars

----------------------------------------------------------------------------
(* GET /api/auth/verify, with get_current_user                             *)

\* jwt.decode(token, JWT_SECRET, algorithms=[JWT_ALGORITHM]): the payload,
\* or JWTError for a bad signature or an exp that lies before the clock
jwt_decode(token) ==
    IF token.sig # JWT_SECRET THEN "JWTError"
    ELSE IF token.exp < now THEN "JWTError"
    ELSE "payload"

NoUserView == [id |-> NoUser, email |-> NoField, workspaces |-> <<>>]

\* get_current_user: 401 unless the token decodes to a stored user
get_current_user(token) ==
    IF jwt_decode(token) = "JWTError" THEN [status |-> 401, user |-> NoUserView]
    ELSE IF token.sub = NoUser THEN [status |-> 401, user |-> NoUserView]
    ELSE IF FindUserById(token.sub) = {} THEN [status |-> 401, user |-> NoUserView]
    ELSE [status |-> 200,
          user |-> UserView(CHOOSE u \in FindUserById(token.sub) : TRUE)]

VerifyToken(token) ==
    /\ Idle
    /\ LET r == get_current_user(token)
       IN  resp' = Response("verify_token", r.user.id, r.status,
                            [token |-> token, user |-> r.user], {})
    /\ UNCHANGED <<dbAuth, dbChat, tokens, reqs, now, nextId, env, dbGoogle>>

\* time passes, up to MaxPastExpiry hours beyond the expiry of a token
\* handed out at time 0
TickHour ==
    /\ Idle
    /\ now < JWT_EXPIRATION_HOURS + MaxPastExpiry
    /\ now' = now + 1
    /\ resp' = NoResp
    /\ UNCHANGED <<dbAuth, dbChat, tokens, reqs, nextId, env, dbGoogle>>

\* tokens a client may present: the ones handed out, and ones it signed
\* itself for any user
IssuedTokens == {i.tok : i \in tokens}
ForgedTokens ==
    {[sub |-> u.id, exp |-> now + JWT_EXPIRATION_HOURS, sig |-> "forged"] : u \in users}

InitToken ==
    /\ users = {RegisteredUser(1, "alice@example.com", 2),
                RegisteredUser(3, DemoEmail, 4)}
    /\ workspaces = {RegisteredWorkspace(2, 1), RegisteredWorkspace(4, 3)}
    /\ assistants = {} /\ conversations = {} /\ messages = {}
    /\ tokens = {} /\ reqs = <<>> /\ resp = NoResp
    /\ now = 0 /\ nextId = 5 /\ env = NoEnv
    /\ integrations = {} /\ documents = {}

NextToken ==
    \/ \E e \in Emails, p \in Passwords :
          Cardinality(tokens) < MaxTokens /\ Login(e, p)
    \/ \E t \in IssuedTokens \cup ForgedTokens : VerifyToken(t)
    \/ TickHour
    \/ Deliver

SpecToken == InitToken /\ [][NextToken]_vars

----------------------------------------------------------------------------
(* Google Workspace integrations and documents                             *)

GoogleIntegrationStatus == {"connected", "disconnected", "error", "deleted"}

\* GoogleIntegration.last_sync = None
NoTime == -1

\* GOOGLE_CLIENT_ID and GOOGLE_CLIENT_SECRET are set, and the id is not the
\* placeholder
GoogleConfigured == env.google

\* has_token: credentials holds the OAuth token fields (not so for a demo
\* integration, whose credentials hold demo_mode instead)
NewIntegration(id, workspace_id, user_id, service, has_token, last_sync) ==
    [id |-> id, workspace_id |-> workspace_id, user_id |-> user_id,
     service |-> service, status |-> "connected", has_token |-> has_token,
     last_sync |-> last_sync, updated_at |-> now]

NewDocument(id, workspace_id, integration_id, google_id, title, doc_type) ==
    [id |-> id, workspace_id |-> workspace_id, integration_id |-> integration_id,
     google_id |-> google_id, title |-> title, doc_type |-> doc_type,
     created_at |-> now]

IntegrationIds == {g.id : g \in integrations}
UserIds == {u.id : u \in users}

\* db.google_integrations.find_one({"id": ..., "workspace_id": ...})
FindIntegration(integration_id, workspace_id) ==
    {g \in integrations : g.id = integration_id /\ g.workspace_id = workspace_id}

\* what reaches GET /api/google/callback: an error parameter, a missing code
\* or state, a state that does not split in two, a code Google refuses, or
\* a code Google accepts
CallbackKinds == {"error", "missing", "malformed", "refused", "accepted"}

\* GET /api/google/callback: the state names workspace and user, and nothing
\* checks either; every exception below the try becomes 500.  Without a
\* configured client Google accepts no code.
GoogleCallback(kind, workspace_id, user_id) ==
    /\ Idle
    /\ kind = "accepted" => GoogleConfigured
    /\ IF kind \in {"error", "missing"}
       THEN /\ resp' = Response("google_callback", NoUser, 400, kind, {})
            /\ UNCHANGED <<integrations, nextId>>
       ELSE IF kind \in {"malformed", "refused"}
       THEN /\ resp' = Response("google_callback", NoUser, 500,
                                "Failed to complete OAuth", {})
            /\ UNCHANGED <<integrations, nextId>>
       ELSE /\ Cardinality(integrations) < MaxIntegrations
            /\ nextId <= MaxId
            /\ integrations' = integrations \cup
                   {NewIntegration(nextId, workspace_id, user_id,
                                   "google_workspace", TRUE, NoTime)}
            /\ nextId' = nextId + 1
            /\ resp' = Response("google_callback", NoUser, 200, nextId, {workspace_id})
    /\ UNCHANGED <<dbAuth, dbChat, tokens, reqs, now, env, documents>>

\* mutant: the integration is removed from the store
DisconnectByRemoval(integration_id, workspace_id) ==
    integrations \ FindIntegration(integration_id, workspace_id)

\* update_one({"id", "workspace_id"},
\*            {"$set": {"status": DISCONNECTED, "updated_at": utcnow()}})
DisconnectUpdate(integration_id, workspace_id) ==
    {IF g.id = integration_id /\ g.workspace_id = workspace_id
     THEN [g EXCEPT !.status = "disconnected", !.updated_at = now]
     ELSE g : g \in integrations}

\* DELETE /api/workspaces/{workspace_id}/google/integrations/{integration_id}
Disconnect(u, workspace_id, integration_id) ==
    /\ Idle
    /\ IF ~IsMember(u, workspace_id)
       THEN /\ resp' = Response("disconnect", u.id, 403, "Access denied", {})
            /\ UNCHANGED integrations
       ELSE IF FindIntegration(integration_id, workspace_id) = {}
       THEN \* result.matched_count == 0
            /\ resp' = Response("disconnect", u.id, 404, integration_id, {})
            /\ UNCHANGED integrations
       ELSE /\ integrations' = DisconnectUpdate(integration_id, workspace_id)
            /\ resp' = Response("disconnect", u.id, 200, integration_id, {workspace_id})
    /\ UNCHANGED <<dbAuth, dbChat, tokens, reqs, now, nextId, env, documents>>

----------------------------------------------------------------------------
(* GET /api/auth/google, GET /api/google/auth: where to send the browser   *)

\* google_login: the demo flow is offered when the client is not configured
GoogleLogin ==
    /\ Idle
    /\ resp' = Response("google_login", NoUser, 200,
                        [demo_mode |-> ~GoogleConfigured], {})
    /\ UNCHANGED <<dbAuth, dbChat, tokens, reqs, now, nextId, env, dbGoogle>>

GoogleAuth(u, workspace_id) ==
    /\ Idle
    /\ IF ~IsMember(u, workspace_id)
       THEN resp' = Response("google_auth", u.id, 403, [demo_mode |-> FALSE], {})
       ELSE resp' = Response("google_auth", u.id, 200,
                             [demo_mode |-> ~GoogleConfigured], {workspace_id})
    /\ UNCHANGED <<dbAuth, dbChat, tokens, reqs, now, nextId, env, dbGoogle>>

----------------------------------------------------------------------------
(* POST /api/google/workspace/demo                                         *)
(* find_one, then insert_one of the integration and of each demo document  *)

\* len(demo_docs)
DemoDocCount == 3

DemoService == "google_workspace_demo"

DemoIntegrationReq(pc, status, u, workspace_id, integration) ==
    [op |-> "google_workspace_demo", pc |-> pc, status |-> status, user |-> u.id,
     workspace_id |-> workspace_id, integration |-> integration,
     k |-> 0, doc |-> NoField]

\* google_id=f"demo_doc_{i+1}"
DemoDocument(r, k, id) ==
    NewDocument(id, r.workspace_id, r.integration.id,
                [kind |-> "demo_doc_", k |-> k], [kind |-> "demo_doc_", k |-> k],
                "demo")

\* the integration is built (a uuid4 is drawn) before the store is asked
\* whether the caller already has a demo integration in the workspace
DemoIntegrationStart(u, workspace_id) ==
    /\ Idle
    /\ IF ~IsMember(u, workspace_id)
       THEN /\ resp' = Response("google_workspace_demo", u.id, 403, "Access denied", {})
            /\ UNCHANGED <<reqs, nextId>>
       ELSE LET integration == NewIntegration(nextId, workspace_id, u.id,
                                              DemoService, FALSE, now)
                existing == {g \in integrations : /\ g.workspace_id = workspace_id
                                                  /\ g.user_id = u.id
                                                  /\ g.service = DemoService}
            IN  /\ nextId <= MaxId
                /\ nextId' = nextId + 1
                /\ IF existing # {}
                   THEN /\ resp' = Response("google_workspace_demo", u.id, 200,
                                            integration, {workspace_id})
                        /\ UNCHANGED reqs
                   ELSE /\ Len(reqs) < MaxReqs
                        /\ Cardinality(integrations) < MaxIntegrations
                        /\ reqs' = Append(reqs, DemoIntegrationReq(
                               "insert_integration", 0, u, workspace_id, integration))
                        /\ resp' = NoResp
    /\ UNCHANGED <<dbAuth, dbChat, tokens, now, env, dbGoogle>>

\* await db.google_integrations.insert_one(integration.dict()), then the
\* first demo document is built
DemoIntegrationInsert(i) ==
    /\ Idle
    /\ At(i, "google_workspace_demo", "insert_integration")
    /\ nextId <= MaxId
    /\ integrations' = integrations \cup {reqs[i].integration}
    /\ reqs' = [reqs EXCEPT ![i].pc = "insert_doc", ![i].k = 1, ![i].doc = nextId]
    /\ nextId' = nextId + 1
    /\ resp' = NoResp
    /\ UNCHANGED <<dbAuth, dbChat, tokens, now, env, documents>>

\* await db.google_documents.insert_one(google_doc.dict()), then the next
\* document is built or the response returned
DemoDocInsert(i) ==
    /\ Idle
    /\ At(i, "google_workspace_demo", "insert_doc")
    /\ LET r == reqs[i]
       IN  /\ documents' = documents \cup {DemoDocument(r, r.k, r.doc)}
           /\ IF r.k < DemoDocCount
              THEN /\ nextId <= MaxId
                   /\ reqs' = [reqs EXCEPT ![i].k = r.k + 1, ![i].doc = nextId]
                   /\ nextId' = nextId + 1
                   /\ resp' = NoResp
              ELSE /\ reqs' = [reqs EXCEPT ![i].pc = "done", ![i].status = 200]
                   /\ resp' = Response("google_workspace_demo", r.user, 200,
                                       r.integration, {r.workspace_id})
                   /\ UNCHANGED nextId
    /\ UNCHANGED <<dbAuth, dbChat, tokens, now, env, integrations>>

----------------------------------------------------------------------------
(* POST /api/workspaces/{workspace_id}/google/sync                         *)
(* The Google API calls block; the handler yields at find_one, at each     *)
(* upsert and at the final update of the integration.  An upsert that      *)
(* matches no document is a query followed by an insert in the store, and  *)
(* no unique index ties the two together (init_db, lines 251-254).         *)

\* one entry of the Drive listing; fetch says whether getting its content
\* succeeds or raises
File(id, mimeType, fetch) == [id |-> id, mimeType |-> mimeType, fetch |-> fetch]

Listings ==
    {<<File("f1", "document", "ok")>>,
     <<File("f1", "document", "fail"), File("f2", "spreadsheet", "ok")>>,
     <<File("f3", "pdf", "ok"), File("f2", "spreadsheet", "ok")>>}

\* line 1139: pageSize of the one files().list request
pageSize == 50

\* an account with more files than one page holds: pageSize files of a kind
\* that is not synced, then a Google Doc
LongDrive ==
    [k \in 1..pageSize |-> File("p" \o ToString(k), "pdf", "ok")]
        \o <<File("f1", "document", "ok")>>

\* the files of the external account, in the order Drive lists them
Drives == Listings \cup {LongDrive}

\* lines 1138-1143: files().list(pageSize=50, ...).execute().get('files'):
\* the first page of the account's files; nextPageToken is not followed
FirstPage(drive) ==
    SubSeq(drive, 1, IF Len(drive) < pageSize THEN Len(drive) ELSE pageSize)

\* lines 1147-1151: only documents, spreadsheets and presentations are synced
Syncable(file) == file.mimeType \in {"document", "spreadsheet", "presentation"}

NoDocument == NewDocument(0, 0, 0, NoField, NoField, NoField)

SyncReq(u, workspace_id, integration_id, drive) ==
    [op |-> "sync_google_data", pc |-> "start", status |-> 0, user |-> u.id,
     workspace_id |-> workspace_id, integration_id |-> integration_id,
     drive |-> drive, listing |-> FirstPage(drive), k |-> 0, doc |-> NoDocument,
     synced |-> 0]

\* the for loop from entry k on, up to the point where the handler next
\* yields or leaves: an upsert, an exception, or the end of the listing
RECURSIVE NextStop(_, _)
NextStop(listing, k) ==
    IF k > Len(listing) THEN [kind |-> "end", k |-> k]
    ELSE IF ~Syncable(listing[k]) THEN NextStop(listing, k + 1)
    ELSE IF listing[k].fetch = "fail" THEN [kind |-> "fail", k |-> k]
    ELSE [kind |-> "upsert", k |-> k]

\* the request after running the loop from entry k: about to upsert the
\* document built for the next file (a fresh uuid4), failed, or about to
\* update the integration
SyncAdvance(r, k) ==
    LET stop == NextStop(r.listing, k)
    IN  IF stop.kind = "upsert"
        THEN [r EXCEPT !.pc = "upsert", !.k = stop.k,
                       !.doc = NewDocument(nextId, r.workspace_id, r.integration_id,
                                           r.listing[stop.k].id, r.listing[stop.k].id,
                                           r.listing[stop.k].mimeType)]
        ELSE IF stop.kind = "fail"
        THEN [r EXCEPT !.pc = "done", !.status = 500, !.k = stop.k, !.doc = NoDocument]
        ELSE [r EXCEPT !.pc = "finish", !.k = stop.k, !.doc = NoDocument]

\* what the store and the client see of that
SyncEffects(r) ==
    /\ r.pc = "upsert" => nextId <= MaxId
    /\ nextId' = IF r.pc = "upsert" THEN nextId + 1 ELSE nextId
    /\ resp' = IF r.pc = "done"
               THEN Response("sync_google_data", r.user, 500, "Sync failed", {})
               ELSE NoResp

\* lines 1113-1145: membership, find_one, credentials, the Drive listing,
\* and the loop up to its first upsert
SyncStart(u, workspace_id, integration_id, drive, list_ok) ==
    /\ Idle
    /\ IF ~IsMember(u, workspace_id)
       THEN /\ resp' = Response("sync_google_data", u.id, 403, "Access denied", {})
            /\ UNCHANGED <<reqs, nextId>>
       ELSE IF FindIntegration(integration_id, workspace_id) = {}
       THEN /\ resp' = Response("sync_google_data", u.id, 404,
                                "Integration not found", {})
            /\ UNCHANGED <<reqs, nextId>>
       ELSE LET g == CHOOSE x \in FindIntegration(integration_id, workspace_id) : TRUE
            IN  IF ~g.has_token \/ ~list_ok
                THEN \* KeyError: 'token', or the listing raises
                     /\ resp' = Response("sync_google_data", u.id, 500,
                                         "Sync failed", {})
                     /\ UNCHANGED <<reqs, nextId>>
                ELSE LET r == SyncAdvance(SyncReq(u, workspace_id, integration_id,
                                                  drive), 1)
                     IN  /\ Len(reqs) < MaxSyncs
                         /\ reqs' = Append(reqs, r)
                         /\ SyncEffects(r)
    /\ UNCHANGED <<dbAuth, dbChat, tokens, now, env, dbGoogle>>

\* the documents the filter of the upsert matches
UpsertMatches(r) ==
    {d \in documents : d.google_id = r.doc.google_id /\ d.workspace_id = r.workspace_id}

\* update_one({"google_id", "workspace_id"}, {"$set": google_doc.dict()},
\* upsert=True): one matching document takes every field of google_doc, its
\* id and created_at included; without a match the insert is still to come
SyncUpsert(i) ==
    /\ Idle
    /\ At(i, "sync_google_data", "upsert")
    /\ LET r == reqs[i]
       IN  IF UpsertMatches(r) = {}
           THEN /\ reqs' = [reqs EXCEPT ![i].pc = "upsert_insert"]
                /\ resp' = NoResp
                /\ UNCHANGED <<documents, nextId>>
           ELSE \E d \in UpsertMatches(r) :
                    LET r2 == SyncAdvance([r EXCEPT !.synced = r.synced + 1], r.k + 1)
                    IN  /\ documents' = (documents \ {d}) \cup {r.doc}
                        /\ reqs' = [reqs EXCEPT ![i] = r2]
                        /\ SyncEffects(r2)
    /\ UNCHANGED <<dbAuth, dbChat, tokens, now, env, integrations>>

\* the insert half of an upsert that matched nothing
SyncUpsertInsert(i) ==
    /\ Idle
    /\ At(i, "sync_google_data", "upsert_insert")
    /\ LET r == reqs[i]
           r2 == SyncAdvance([r EXCEPT !.synced = r.synced + 1], r.k + 1)
       IN  /\ documents' = documents \cup {r.doc}
           /\ reqs' = [reqs EXCEPT ![i] = r2]
           /\ SyncEffects(r2)
    /\ UNCHANGED <<dbAuth, dbChat, tokens, now, env, integrations>>

\* lines 1200-1208: update_one({"id": integration_id},
\*                             {"$set": {"last_sync": utcnow()}}), return
SyncFinish(i) ==
    /\ Idle
    /\ At(i, "sync_google_data", "finish")
    /\ LET r == reqs[i]
       IN  /\ integrations' =
                 {IF g.id = r.integration_id THEN [g EXCEPT !.last_sync = now] ELSE g :
                     g \in integrations}
           /\ reqs' = [reqs EXCEPT ![i].pc = "done", ![i].status = 200]
           /\ resp' = Response("sync_google_data", r.user, 200, r.synced,
                               {r.workspace_id})
    /\ UNCHANGED <<dbAuth, dbChat, tokens, now, nextId, env, documents>>

----------------------------------------------------------------------------
(* Specification of the integration routes: two registered users, a        *)
(* configured Google client.                                               *)

InitGoogle ==
    /\ users = {RegisteredUser(1, "alice@example.com", 2),
                RegisteredUser(3, DemoEmail, 4)}
    /\ workspaces = {RegisteredWorkspace(2, 1), RegisteredWorkspace(4, 3)}
    /\ assistants = {} /\ conversations = {} /\ messages = {}
    /\ tokens = {} /\ reqs = <<>> /\ resp = NoResp
    /\ now = 0 /\ nextId = 5
    /\ env = [openai |-> FALSE, anthropic |-> FALSE, google |-> TRUE]
    /\ integrations = {} /\ documents = {}

NextGoogle ==
    \/ \E kind \in CallbackKinds, w \in WorkspaceIds, uid \in UserIds :
          GoogleCallback(kind, w, uid)
    \/ \E u \in users, w \in WorkspaceIds, g \in IntegrationIds : Disconnect(u, w, g)
    \/ \E u \in users, w \in WorkspaceIds, g \in IntegrationIds,
          l \in Drives, ok \in BOOLEAN : SyncStart(u, w, g, l, ok)
    \/ \E i \in 1..MaxSyncs : SyncUpsert(i)
    \/ \E i \in 1..MaxSyncs : SyncUpsertInsert(i)
    \/ \E i \in 1..MaxSyncs : SyncFinish(i)
    \/ Deliver

SpecGoogle == InitGoogle /\ [][NextGoogle]_vars

----------------------------------------------------------------------------
(* Specification of the integration records: every route that writes to    *)
(* db.google_integrations, with Drive listings that are empty.             *)

NextIntegration ==
    \/ \E kind \in CallbackKinds, w \in WorkspaceIds, uid \in UserIds :
          GoogleCallback(kind, w, uid)
    \/ \E u \in users, w \in WorkspaceIds : DemoIntegrationStart(u, w)
    \/ \E i \in 1..MaxReqs : DemoIntegrationInsert(i)
    \/ \E i \in 1..MaxReqs : DemoDocInsert(i)
    \/ \E u \in users, w \in WorkspaceIds, g \in IntegrationIds : Disconnect(u, w, g)
    \/ \E u \in users, w \in WorkspaceIds, g \in IntegrationIds, ok \in BOOLEAN :
          SyncStart(u, w, g, <<>>, ok)
    \/ \E i \in 1..MaxSyncs : SyncFinish(i)
    \/ Deliver

SpecIntegration == InitGoogle /\ [][NextIntegration]_vars

----------------------------------------------------------------------------
(* Specification of the demo paths: one registered user, a Google client   *)
(* that is configured or not.                                              *)

InitDemo ==
    /\ users = {RegisteredUser(1, "alice@example.com", 2)}
    /\ workspaces = {RegisteredWorkspace(2, 1)}
    /\ assistants = {} /\ conversations = {} /\ messages = {}
    /\ tokens = {} /\ reqs = <<>> /\ resp = NoResp
    /\ now = 0 /\ nextId = 3
    /\ env \in {[openai |-> FALSE, anthropic |-> FALSE, google |-> c] : c \in BOOLEAN}
    /\ integrations = {} /\ documents = {}

NextDemo ==
    \/ GoogleLogin
    \/ DemoLookup
    \/ \E i \in 1..MaxReqs : DemoInsertWorkspace(i)
    \/ \E i \in 1..MaxReqs : DemoInsertUser(i)
    \/ \E u \in users, w \in WorkspaceIds : GoogleAuth(u, w)
    \/ \E u \in users, w \in WorkspaceIds : DemoIntegrationStart(u, w)
    \/ \E i \in 1..MaxReqs : DemoIntegrationInsert(i)
    \/ \E i \in 1..MaxReqs : DemoDocInsert(i)
    \/ Deliver

SpecDemo == InitDemo /\ [][NextDemo]_vars

----------------------------------------------------------------------------
(* Claims about the authentication routes (checked under SpecAuth)         *)

IsRegister(r) == r.op = "register"
SignupInFlight == \E i \in DOMAIN reqs : reqs[i].pc # "done"

UniqueEmail == \A u1, u2 \in users : u1.email = u2.email => u1 = u2

\* a step in which a register call arrives for an e-mail that an earlier
\* register call has already been answered 200 for
LateRegister(e) ==
    /\ Len(reqs') = Len(reqs) + 1
    /\ IsRegister(reqs'[Len(reqs')])
    /\ reqs'[Len(reqs')].email = e
    /\ \E i \in DOMAIN reqs :
           IsRegister(reqs[i]) /\ reqs[i].email = e /\ reqs[i].status = 200

LateRegisterConflicts ==
    \A e \in Emails :
        LateRegister(e) =>
            /\ reqs'[Len(reqs')].pc = "done"
            /\ reqs'[Len(reqs')].status = 400
            /\ resp'.status = 400
            /\ UNCHANGED <<users, workspaces, tokens>>

\* C2: once register has succeeded for an e-mail, every register call that
\* arrives later with that e-mail is answered 400 at once and adds neither a
\* user nor a workspace; no two stored users ever share an e-mail.
C2_DuplicateRegistration == []UniqueEmail /\ [][LateRegisterConflicts]_vars

C2_Witness ==
    \E i, j \in DOMAIN reqs :
        /\ i < j /\ IsRegister(reqs[i]) /\ IsRegister(reqs[j])
        /\ reqs[i].email = reqs[j].email
        /\ reqs[i].status = 200 /\ reqs[j].status = 400

\* C3: of two register requests with one e-mail, however their steps
\* interleave, at most one user with that e-mail is stored and at most one
\* request is answered with a token.
C3_ConcurrentRegistration ==
    /\ \A e \in Emails : Cardinality(FindUserByEmail(e)) <= 1
    /\ \A i, j \in DOMAIN reqs :
           (i # j /\ IsRegister(reqs[i]) /\ IsRegister(reqs[j])
                  /\ reqs[i].email = reqs[j].email)
           => ~(reqs[i].status = 200 /\ reqs[j].status = 200)
    /\ \A i \in DOMAIN reqs :
           (IsRegister(reqs[i]) /\ reqs[i].token # NoToken) => reqs[i].status = 200

\* both requests passed the lookup; the loser was stopped by the unique
\* index when it inserted its user, after its workspace had been stored
C3_Witness ==
    \E i, j \in DOMAIN reqs :
        /\ i # j /\ IsRegister(reqs[i]) /\ IsRegister(reqs[j])
        /\ reqs[i].email = reqs[j].email
        /\ reqs[i].status = 200 /\ reqs[j].status = 500
        /\ ReqWorkspace(reqs[j]) \in workspaces

WorkspaceHasOwner(w) ==
    \E u \in users : u.id = w.owner_id /\ IsMember(u, w.id)

\* C8: whenever no sign-up is part-way, every stored workspace has an
\* owner_id that names a stored user whose workspaces list holds it.
C8_AtomicWorkspaceCreation ==
    ~SignupInFlight => \A w \in workspaces : WorkspaceHasOwner(w)

OwnerIsMember ==
    \A w \in workspaces :
        \E k \in DOMAIN w.members :
            w.members[k].user_id = w.owner_id /\ w.members[k].role = "owner"

\* C9: every stored workspace has a members entry for its owner_id with the
\* owner role, and no step removes or changes a stored workspace.
C9_OwnerMembership == []OwnerIsMember /\ [][workspaces \subseteq workspaces']_vars

\* workspaces made by the demo login and by the OAuth login are both stored
C9_Witness ==
    /\ \E u \in users : u.auth_provider = "google_demo" /\ PrimaryWorkspace(u) # {}
    /\ \E u \in users : u.auth_provider = "google" /\ PrimaryWorkspace(u) # {}

SlugFormat ==
    \A i \in DOMAIN reqs :
        (IsRegister(reqs[i]) /\ reqs[i].workspace_name # NoName) =>
            \A w \in workspaces :
                w.id = reqs[i].workspace_id =>
                    /\ w.slug.kind = "name"
                    /\ Len(w.slug.text) = Len(reqs[i].workspace_name)
                    /\ \A k \in DOMAIN w.slug.text :
                           w.slug.text[k] =
                               (IF reqs[i].workspace_name[k] = "T" THEN "t"
                                ELSE IF reqs[i].workspace_name[k] = " " THEN "-"
                                ELSE reqs[i].workspace_name[k])

UniqueSlug == \A w1, w2 \in workspaces : w1.slug = w2.slug => w1 = w2

\* the slug the request derived is the slug of another stored workspace
SlugTaken(r) ==
    \E w \in workspaces :
        w.slug = workspace_slug(r.workspace_name, r.user_id) /\ w.id # r.workspace_id

SlugConflictOutcome ==
    \A i \in DOMAIN reqs :
        (IsRegister(reqs[i]) /\ reqs[i].pc = "done" /\ reqs[i].user_id # NoUser
                             /\ SlugTaken(reqs[i]))
        => reqs[i].status \in {400, 409}

\* C10: a stored workspace's slug is its provided name lower-cased with
\* spaces replaced by hyphens, no two workspaces share a slug, and a register
\* call whose slug is taken ends in a Conflict outcome (400/409).
C10_SlugConflict == SlugFormat /\ UniqueSlug /\ SlugConflictOutcome

RegisteredOk(r) == IsRegister(r) /\ r.pc = "done" /\ r.status = 200

IsLoginOk == resp.op = "login" /\ resp.status = 200

\* a register call that has been answered 200 can log in with its e-mail and
\* password
RegisteredCanLogin ==
    \A i \in DOMAIN reqs :
        RegisteredOk(reqs[i]) => LoginStatus(reqs[i].email, reqs[i].password) = 200

\* a successful login returns the user and workspace that register returned
\* for the e-mail, and a token that verifies to that user
LoginReturnsRegistered ==
    IsLoginOk =>
        /\ get_current_user(resp.data.access_token) =
               [status |-> 200, user |-> resp.data.user]
        /\ \A i \in DOMAIN reqs :
               (RegisteredOk(reqs[i]) /\ reqs[i].email = resp.data.user.email) =>
                   /\ resp.data.user = UserView(ReqUser(reqs[i]))
                   /\ resp.data.workspace = ReqWorkspace(reqs[i])

LoginStoresNothing ==
    resp'.op = "login" => UNCHANGED <<dbAuth, dbChat, dbGoogle>>

\* C13: after register has succeeded, login with the same e-mail and
\* password succeeds, returns the user and the workspace register returned
\* and a token that verifies to that user, and changes no stored record.
C13_RegisterLoginRoundTrip ==
    /\ [](RegisteredCanLogin /\ LoginReturnsRegistered)
    /\ [][LoginStoresNothing]_vars

C13_Witness ==
    /\ IsLoginOk
    /\ \E i \in DOMAIN reqs :
           RegisteredOk(reqs[i]) /\ reqs[i].email = resp.data.user.email

\* the e-mail is unknown, or the password does not match what is stored for
\* it (nothing matches a user stored without a password)
BadCredentials(email, password) ==
    \A u \in FindUserByEmail(email) : u.password # hash_password(password)

\* C14: a login call with an unknown e-mail or a password that does not
\* match the stored credential is answered 401 and hands out no token,
\* however the user was created.
C14_BadCredentials ==
    [][\A e \in Emails, p \in Passwords :
           (Login(e, p) /\ BadCredentials(e, p)) =>
               (resp'.status = 401 /\ tokens' = tokens)]_vars

\* a user created by password registration
PasswordRegistered(user_id) ==
    \E i \in DOMAIN reqs :
        /\ reqs[i].op = "register" /\ reqs[i].user_id = user_id
        /\ \E u \in users : u.id = user_id

\* C29: the demo login, which takes no credentials, never returns a token
\* for a user that was created by password registration.
C29_NoTokenWithoutProof ==
    \A i \in DOMAIN reqs :
        (reqs[i].op = "google_demo_login" /\ reqs[i].token # NoToken) =>
            ~PasswordRegistered(reqs[i].token.sub)

----------------------------------------------------------------------------
(* Claims about the workspace routes (checked under SpecChat)              *)

IsSend(r) == r.op = "send_message"

\* C1: a response to user U never carries, and a request of U never changes,
\* a resource of a workspace that is not in U's membership list.
C1_TenantIsolation ==
    resp.user # NoUser =>
        \A u \in FindUserById(resp.user) : resp.scope \subseteq Range(u.workspaces)

ProviderFailed(r) == IsSend(r) /\ r.provider \in ProviderOutcomes \ {"ok"}

\* C4: from the moment send_message has resolved conversation and assistant,
\* and so before the provider is called, the user message is stored; when the
\* provider call fails the request ends in 500 carrying the cause, and the
\* user message stays stored.
C4_UserMessageDurable ==
    /\ \A i \in DOMAIN reqs :
           IsSend(reqs[i]) =>
               /\ reqs[i].user_message \in messages
               /\ reqs[i].user_message.conversation_id = reqs[i].cid
               /\ reqs[i].user_message.content.text = reqs[i].content
               /\ ProviderFailed(reqs[i]) =>
                      reqs[i].pc = "done" /\ reqs[i].status = 500
    /\ (resp.op = "send_message" /\ resp.status = 500
                                 /\ resp.data.error = "AI response error")
       => \E i \in DOMAIN reqs :
              /\ ProviderFailed(reqs[i])
              /\ resp.data.cause = reqs[i].provider
              /\ reqs[i].user_message \in messages

C4_Witness ==
    /\ resp.op = "send_message" /\ resp.status = 500
    /\ \E i \in DOMAIN reqs :
           /\ ProviderFailed(reqs[i])
           /\ reqs[i].user_message \in messages
           /\ \A m \in messages : m.role # "assistant"

\* the step answers delete_assistant with success
DeleteSucceeds == resp'.op = "delete_assistant" /\ resp'.status = 200

\* C5: after delete_assistant succeeds for assistant A, no stored
\* conversation has assistant_id A and no stored message belongs to a
\* conversation that belonged to A.
C5_CascadeComplete ==
    [][DeleteSucceeds =>
          /\ \A c \in conversations' : c.assistant_id # resp'.data
          /\ \A m \in messages' :
                 \A c \in conversations :
                     c.assistant_id = resp'.data => m.conversation_id # c.id]_vars

IsListing == resp.op = "get_conversations" /\ resp.status = 200

ListingExactAndSorted ==
    IsListing =>
        LET l == resp.data.list
            own == {c \in conversations : /\ c.workspace_id = resp.data.workspace_id
                                         /\ c.user_id = resp.user
                                         /\ c.status # "deleted"}
        IN  /\ {l[k] : k \in DOMAIN l} = own
            /\ Len(l) = Cardinality(own)
            /\ \A j, k \in DOMAIN l : j < k => l[j].updated_at >= l[k].updated_at

\* the listed conversation whose message exchange completed last is first,
\* or shares its updated_at with the first
LastExchangeFirst ==
    IsListing =>
        LET l == resp.data.list
        IN  \A i \in DOMAIN reqs :
                (/\ IsSend(reqs[i]) /\ reqs[i].status = 200
                 /\ \E k \in DOMAIN l : l[k].id = reqs[i].cid
                 /\ \A j \in DOMAIN reqs :
                        (j # i /\ IsSend(reqs[j]) /\ reqs[j].status = 200
                               /\ reqs[j].cid # reqs[i].cid)
                        => reqs[j].updated_at < reqs[i].updated_at)
                => \E k \in DOMAIN l : /\ l[k].id = reqs[i].cid
                                       /\ l[k].updated_at = l[1].updated_at

\* C7 (as claimed): the listing is exactly the caller's conversations of the
\* workspace that are not deleted, in non-increasing updated_at order, and
\* the conversation that most recently completed an exchange comes first.
C7_ListingLastExchangeFirst == ListingExactAndSorted /\ LastExchangeFirst

\* C7 (amended): the listing is exactly the caller's conversations of the
\* workspace that are not deleted, in non-increasing updated_at order, so
\* the conversation with the greatest updated_at comes first.
C7_ListingSorted ==
    /\ ListingExactAndSorted
    /\ IsListing =>
           \A c \in conversations :
               (/\ c.workspace_id = resp.data.workspace_id
                /\ c.user_id = resp.user
                /\ c.status # "deleted")
               => resp.data.list[1].updated_at >= c.updated_at

\* a listing of two conversations with different updated_at, the first of
\* them fresher through a completed exchange
C7_Witness ==
    /\ IsListing
    /\ Len(resp.data.list) = 2
    /\ resp.data.list[1].updated_at > resp.data.list[2].updated_at
    /\ \E i \in DOMAIN reqs :
           IsSend(reqs[i]) /\ reqs[i].status = 200
                           /\ reqs[i].cid = resp.data.list[1].id

\* no credential is configured for the provider the request's model routes to
NoCredential(r) ==
    IF StartsWithGpt(r.assistant.model) THEN ~env.openai ELSE ~env.anthropic

C12_SyntheticTagged ==
    \A m \in messages :
        m.role = "assistant" =>
            (m.content.kind = "demo" <=> m.metadata # DefaultMetadata)

\* C16: when no request is in flight, the updated_at of every conversation
\* is at least the created_at of each of its messages.
C16_FreshOnEveryMessage ==
    (\A i \in DOMAIN reqs : reqs[i].pc = "done") =>
        \A c \in conversations :
            \A m \in messages :
                m.conversation_id = c.id => c.updated_at >= m.created_at

\* the step answers with a client error and writes nothing to the store
ClientErrorNoWrite ==
    /\ resp'.status \in 400..499
    /\ UNCHANGED <<dbAuth, dbChat, dbGoogle>>

\* C21: a send_message, create_assistant or create_conversation request whose
\* body lacks its required field (content, name, assistant_id) is answered
\* with a 4xx status, never a 5xx, and stores nothing.
C21_RequiredFields ==
    [][/\ \A u \in users, c \in ConversationIds :
              SendResolve(u, c, NoField) => ClientErrorNoWrite
       /\ \A u \in users, w \in WorkspaceIds, m \in Models :
              CreateAssistant(u, w, NoField, m) => ClientErrorNoWrite
       /\ \A u \in users, w \in WorkspaceIds :
              CreateConversation(u, w, NoUser) => ClientErrorNoWrite]_vars

\* the conversation a send_message names is absent or not the caller's
ConversationMissing(u, c) ==
    ~\E x \in conversations : x.id = c /\ x.user_id = u.id

\* the caller's conversation names an assistant that is not stored
AssistantMissing(u, c) ==
    \E x \in conversations :
        /\ x.id = c /\ x.user_id = u.id
        /\ ~\E a \in assistants : a.id = x.assistant_id

\* the owner can still read the conversation: get_messages finds it and
\* get_conversations of its workspace lists it
ReadableByOwner(u, c) ==
    \E x \in conversations' :
        /\ x.id = c /\ x.user_id = u.id
        /\ IsMember(u, x.workspace_id)
        /\ x.status # "deleted"

\* C22: a send_message on a conversation that is absent or not the caller's,
\* or whose assistant record is missing, answers 404, stores no message and
\* leaves every conversation (its updated_at included) as it was; in the
\* missing-assistant case the conversation stays readable by its owner.
C22_NotFoundFrame ==
    [][\A u \in users, c \in ConversationIds, t \in Contents \cup {NoField} :
          (SendResolve(u, c, t) /\ (ConversationMissing(u, c) \/ AssistantMissing(u, c)))
          => /\ resp'.status = 404
             /\ UNCHANGED <<dbAuth, dbChat, dbGoogle>>
             /\ AssistantMissing(u, c) => ReadableByOwner(u, c)]_vars

\* "Assistant not found" has been returned to the owner of a stored
\* conversation whose assistant is gone, and no message was stored
C22_Witness ==
    /\ resp.op = "send_message" /\ resp.status = 404
    /\ resp.data = "Assistant not found"
    /\ \E c \in conversations :
           /\ c.user_id = resp.user
           /\ ~\E a \in assistants : a.id = c.assistant_id
    /\ messages = {}

\* C27: for every stored conversation whose assistant record exists, the
\* assistant's workspace is the conversation's workspace.
C27_WorkspaceAgreement ==
    \A c \in conversations, a \in assistants :
        a.id = c.assistant_id => a.workspace_id = c.workspace_id

----------------------------------------------------------------------------
(* Claims about the assistant routes (checked under SpecAssistant)         *)

\* the step serves GET, PUT or DELETE of assistant a under workspace w for u
AssistantRequest(u, w, a) ==
    \/ GetAssistant(u, w, a)
    \/ DeleteAssistant(u, w, a)
    \/ \E b \in UpdateBodies : UpdateLookup(u, w, a, b)

StoredIn(a, w) == \E x \in assistants : x.id = a /\ x.workspace_id = w

StoreUnchanged == UNCHANGED <<dbAuth, dbChat, dbGoogle>>

\* C15: GET, PUT and DELETE of assistant a under workspace w answer 403 when
\* the caller is not a member of w, whether or not a exists; otherwise 404
\* when no assistant with id a is stored in w, also when a is stored in
\* another workspace; in both cases the store is unchanged.
C15_AssistantRouteOutcomes ==
    [][\A u \in users, w \in WorkspaceIds, a \in SeenIds :
           AssistantRequest(u, w, a) =>
               /\ w \notin Range(u.workspaces) =>
                      resp'.status = 403 /\ StoreUnchanged
               /\ (w \in Range(u.workspaces) /\ ~StoredIn(a, w)) =>
                      resp'.status = 404 /\ StoreUnchanged]_vars

\* a member is told 404 for the id of an assistant of another workspace
C15_Witness ==
    /\ resp.op \in {"get_assistant", "update_assistant", "delete_assistant"}
    /\ resp.status = 404
    /\ assistants # {}
    /\ \A u \in FindUserById(resp.user) :
           \A x \in assistants : x.workspace_id \notin Range(u.workspaces)

----------------------------------------------------------------------------
(* Claims about the message routes (checked under SpecMessages)            *)

MessagesOf(c) == {m \in messages : m.conversation_id = c}

\* the listing holds every message of the conversation once and no other,
\* in non-decreasing order of created_at
ListsInCreationOrder(list, c) ==
    /\ Range(list) = MessagesOf(c)
    /\ Len(list) = Cardinality(MessagesOf(c))
    /\ \A j, k \in DOMAIN list : j < k => list[j].created_at <= list[k].created_at

\* get_messages by the owner answers with such a listing
OwnerListing ==
    \A u \in users, c \in ConversationIds :
        (FindConversation(c, u.id) # {} /\ resp'.op = "get_messages"
                                        /\ GetMessages(u, c)) =>
            resp'.status = 200 /\ ListsInCreationOrder(resp'.data, c)

\* the reply of a send_message is stored after its user message and is not
\* created before it
UserMessageFirst ==
    \A i \in DOMAIN reqs :
        (IsSend(reqs[i]) /\ reqs[i].assistant_message \in messages) =>
            /\ reqs[i].user_message \in messages
            /\ reqs[i].user_message.created_at <= reqs[i].assistant_message.created_at
            /\ reqs[i].user_message.conversation_id =
                   reqs[i].assistant_message.conversation_id

\* a stored message stays stored as it is, unless the step deletes an
\* assistant
MessagesImmutable ==
    \/ messages \subseteq messages'
    \/ \E u \in users, w \in WorkspaceIds, a \in AssistantIds : DeleteAssistant(u, w, a)

----------------------------------------------------------------------------
(* Claims about update_assistant (checked under SpecUpdate)                *)

\* what the write of request r makes of the stored assistant a: a supplied
\* field takes the supplied value, every other field keeps the value it has
FrameOf(r, a) ==
    [a EXCEPT !.name = Get(r.assistant_data, "name", a.name),
              !.type = Get(r.assistant_data, "type", a.type),
              !.model = Get(r.assistant_data, "model", a.model)]

UpdateTarget(r, a) == a.id = r.assistant_id /\ a.workspace_id = r.workspace_id

\* C25: the write of an update_assistant sets exactly the supplied fields;
\* a field that was not supplied keeps its previous value; id, workspace_id
\* and created_by never change; no other assistant and no other collection
\* is touched.
C25_PartialUpdateFrame ==
    [][\A i \in DOMAIN reqs :
          UpdateWrite(i) =>
              /\ assistants' = {IF UpdateTarget(reqs[i], a) THEN FrameOf(reqs[i], a)
                                ELSE a : a \in assistants}
              /\ UNCHANGED <<dbAuth, conversations, messages, dbGoogle>>]_vars

IsUpdate(r) == r.op = "update_assistant"

FailedUpdate(r) == IsUpdate(r) /\ r.pc = "done" /\ r.status >= 400

\* no other update request was made for the assistant of request i
OnlyUpdateOf(i) ==
    \A j \in DOMAIN reqs :
        (IsUpdate(reqs[j]) /\ reqs[j].assistant_id = reqs[i].assistant_id) => j = i

\* C30: when update_assistant ends in an error the stored assistant is what
\* it was before the request, and get_assistant and get_assistants of its
\* workspace can return it as before.
C30_FailedUpdateUnchanged ==
    \A i \in DOMAIN reqs :
        (FailedUpdate(reqs[i]) /\ OnlyUpdateOf(i)) =>
            \A a \in assistants :
                UpdateTarget(reqs[i], a) =>
                    a = reqs[i].existing_assistant /\ ValidAssistant(a)

----------------------------------------------------------------------------
(* Claims about sync (checked under SpecGoogle)                            *)

IsSync(r) == r.op = "sync_google_data"

\* at most one document per external identifier and workspace
UniqueExternal ==
    \A d1, d2 \in documents :
        (d1.google_id = d2.google_id /\ d1.workspace_id = d2.workspace_id) => d1 = d2

\* the upsert of a file that is already known inserts nothing and leaves the
\* stored documents the documents they were
KnownFileInPlace ==
    \A i \in DOMAIN reqs :
        (SyncUpsert(i) /\ UpsertMatches(reqs[i]) # {}) =>
            /\ Cardinality(documents') = Cardinality(documents)
            /\ {d.id : d \in documents'} = {d.id : d \in documents}

\* C17: after any sequence of sync runs, sequential or interleaved, the store
\* holds at most one document per (external identifier, workspace); syncing
\* a known file updates the stored document in place and inserts nothing.
C17_SyncUpsert == []UniqueExternal /\ [][KnownFileInPlace]_vars

\* C18: a sync that got its listing ends without reporting failure, and every
\* file of the listing whose own fetch succeeds is stored, whatever happened
\* to the files before it.
C18_PerFileIsolation ==
    \A i \in DOMAIN reqs :
        (IsSync(reqs[i]) /\ reqs[i].pc = "done") =>
            /\ reqs[i].status = 200
            /\ \A k \in DOMAIN reqs[i].listing :
                   LET f == reqs[i].listing[k]
                   IN  (Syncable(f) /\ f.fetch = "ok") =>
                           \E d \in documents :
                               /\ d.google_id = f.id
                               /\ d.workspace_id = reqs[i].workspace_id

\* the workspace of a sync holds a document for file f
Stored(r, f) ==
    \E d \in documents : d.google_id = f.id /\ d.workspace_id = r.workspace_id

\* C23: after a sync that ended with 200, the workspace holds a document for
\* every file of a supported kind in the external account, whatever page of
\* the listing it is on, and none for a file of an unsupported kind.
C23_SyncCoverage ==
    \A i \in DOMAIN reqs :
        (IsSync(reqs[i]) /\ reqs[i].pc = "done" /\ reqs[i].status = 200) =>
            \A k \in DOMAIN reqs[i].drive :
                Syncable(reqs[i].drive[k]) <=> Stored(reqs[i], reqs[i].drive[k])

Ids(S) == {x.id : x \in S}

UniqueIds(S) == \A x, y \in S : x.id = y.id => x = y

\* a document or integration that is stored keeps its identifier: the sync
\* and integration routes delete nothing, so no identifier in use goes away
IdentifiersKept ==
    /\ Ids(documents) \subseteq Ids(documents')
    /\ Ids(integrations) \subseteq Ids(integrations')
    /\ Ids(users) \subseteq Ids(users')
    /\ Ids(workspaces) \subseteq Ids(workspaces')

\* C26: a stored resource keeps the identifier it got when it was created,
\* across every update including the re-sync of a known document, and no
\* two resources of one collection share an identifier.
C26_IdentifierStability ==
    /\ [](UniqueIds(documents) /\ UniqueIds(integrations) /\
          UniqueIds(users) /\ UniqueIds(workspaces))
    /\ [][IdentifiersKept]_vars

\* every stored integration names a stored user who is a member of the
\* integration's workspace
IntegrationOwned(g) ==
    \E u \in users : u.id = g.user_id /\ IsMember(u, g.workspace_id)

\* C28: every stored integration has a user_id that names a stored user and
\* a workspace_id in that user's membership list.
C28_IntegrationOwnership == \A g \in integrations : IntegrationOwned(g)

----------------------------------------------------------------------------
(* Claims about integrations (checked under SpecIntegration)               *)

\* a status stays, or moves from connected to disconnected or error
StatusMove(from, to) ==
    to = from \/ (from = "connected" /\ to \in {"disconnected", "error"})

\* every stored integration is still stored after the step, under the same
\* id and workspace, and its status has stayed or moved forward
IntegrationsKept ==
    \A g \in integrations :
        \E h \in integrations' :
            /\ h.id = g.id /\ h.workspace_id = g.workspace_id
            /\ StatusMove(g.status, h.status)

InWorkspace(g, integration_id, workspace_id) ==
    g.id = integration_id /\ g.workspace_id = workspace_id

\* disconnect by a member: the integration with that id in that workspace
\* becomes disconnected and only its updated_at changes besides; without
\* such an integration the answer is 404 and nothing changes
DisconnectEffect ==
    \A u \in users, w \in WorkspaceIds, id \in IntegrationIds :
        (Disconnect(u, w, id) /\ w \in Range(u.workspaces)) =>
            IF \E g \in integrations : InWorkspace(g, id, w)
            THEN /\ resp'.status = 200
                 /\ Cardinality(integrations') = Cardinality(integrations)
                 /\ \A g \in integrations :
                        IF InWorkspace(g, id, w)
                        THEN \E h \in integrations' :
                                 /\ h.status = "disconnected"
                                 /\ h = [g EXCEPT !.status = "disconnected",
                                                  !.updated_at = h.updated_at]
                        ELSE g \in integrations'
                 /\ UNCHANGED <<dbAuth, dbChat, documents>>
            ELSE /\ resp'.status = 404
                 /\ UNCHANGED <<dbAuth, dbChat, dbGoogle>>

\* C19: no step removes an integration; disconnect by a workspace member
\* sets the status of the integration with that id in that workspace to
\* disconnected and changes nothing else but its updated_at, answers 404 and
\* changes nothing when the workspace holds no such integration; a status
\* only moves from connected to disconnected or error.
C19_IntegrationsOnlyFlagged == [][IntegrationsKept /\ DisconnectEffect]_vars

\* an integration has been disconnected and is still stored
C19_Witness ==
    /\ resp.op = "disconnect" /\ resp.status = 200
    /\ \E g \in integrations : g.id = resp.data /\ g.status = "disconnected"

----------------------------------------------------------------------------
(* Claims about the demo paths (checked under SpecDemo)                    *)

DemoUsers == {u \in users : u.auth_provider = "google_demo"}
DemoIntegrations == {g \in integrations : g.service = DemoService}

\* C20: with the Google client configured there is no demo user, no token
\* handed out by the demo login, no demo integration and no demo document.
C20_DemoGated ==
    GoogleConfigured =>
        /\ DemoUsers = {}
        /\ \A i \in DOMAIN reqs :
               reqs[i].op = "google_demo_login" => reqs[i].token = NoToken
        /\ DemoIntegrations = {}
        /\ \A d \in documents : d.doc_type # "demo"

----------------------------------------------------------------------------
(* Claims about tokens (checked under SpecToken)                           *)

IsVerify == resp.op = "verify_token"

\* C6: a token handed out for user U at time t verifies to U at every time
\* up to t + 24 h and is refused with 401 at every later time; no presented
\* token verifies to a user it was not handed out for.
C6_TokenWindow ==
    IsVerify =>
        /\ \A i \in tokens :
               i.tok = resp.data.token =>
                   /\ now <= i.at + 24 =>
                          resp.status = 200 /\ resp.data.user.id = i.user
                   /\ now > i.at + 24 => resp.status = 401
        /\ resp.status = 200 =>
               \E i \in tokens :
                   i.tok = resp.data.token /\ i.user = resp.data.user.id
        /\ resp.status \in {200, 401}

\* a handed-out token is refused on the first tick past its expiry
C6_Witness ==
    /\ IsVerify /\ resp.status = 401
    /\ \E i \in tokens : i.tok = resp.data.token /\ now = i.at + 24 + 1

====
